---------------------------- MODULE Spec2Model ----------------------------
(***************************************************************************)
(* Model of the kline downloader (src/python/download-kline.py) and of the *)
(* checksum verifier (src/python/verify-data.py).                          *)
(*                                                                         *)
(* Spec       : one or two calls of download_daily_klines against          *)
(*              the same destination folder, with the worker threads of    *)
(*              the ThreadPoolExecutor interleaved step by step.           *)
(* FairSpec   : Spec from a fresh folder, with the scheduling fairness of   *)
(*              the worker threads.                                        *)
(* HangSpec   : FairSpec where download_file calls may never return.      *)
(* SpecMain   : one run of the script (__main__): download_monthly_klines  *)
(*              and the call of download_daily_klines, to its end.         *)
(* SpecQueue  : build_download_queue applied to bounded argument lists.    *)
(* SpecVerify : the directory verifier, in both modes, on bounded          *)
(*              directory contents.                                        *)
(***************************************************************************)
EXTENDS Integers, Sequences, FiniteSets, TLC

\* ------------------------------------------------------------------ bounds

\* Largest |symbols| x |intervals| x |dates| of a modelled invocation, and
\* the largest worker count.
MaxTasks == 2

\* ------------------------------------------------------------ input values

None == "None"

Symbols == {"btc", "BTC"}

Intervals == {"1d", "1h"}

\* Three days, and a token that is not a date (month 13).
DateTokens == {"2024-01-01", "2024-01-02", "2024-01-03", "2024-13-01"}

SeqUpTo(S, n) == UNION {[1..k -> S] : k \in 0..n}

\* str.upper() on the symbols of the model.
upper(s) == CASE s = "btc" -> "BTC"
              [] s = "BTC" -> "BTC"
              [] OTHER -> s

\* enums.DAILY_INTERVALS: the intervals valid for daily archives.
DAILY_INTERVALS == {"1d"}

\* utility.convert_to_date_object raises ValueError on a token that is not
\* a date.
ValueError(d) == d = "2024-13-01"

\* utility.convert_to_date_object: day string -> date, as a day ordinal.
\* "2024-1-01" and "2024-2-01" are the month tokens of the monthly loop.
convert_to_date_object(d) == CASE d = "2024-01-01" -> 2557
                               [] d = "2024-01-02" -> 2558
                               [] d = "2024-01-03" -> 2559
                               [] d = "2024-1-01" -> 2557
                               [] d = "2024-2-01" -> 2588
                               [] OTHER -> 2560

\* enums.START_DATE (2017-01-01) and enums.END_DATE (today), as day ordinals.
START_DATE == 1

END_DATE == 3591

\* utility.get_path(trading_type, "klines", time_period, symbol, interval).
get_path(time_period, symbol, interval) ==
    time_period \o "/klines/" \o upper(symbol) \o "/" \o interval \o "/"

\* ------------------------------------------------------------------- state

VARIABLES
    args,            \* the arguments of the call of download_daily_klines:
                     \* symbols, intervals, dates, startDate, endDate,
                     \* checksum, workers (in SpecMain, first the command line)
    disk,            \* destination folder: path -> file size (existing files)
    run,             \* number of the current invocation
    phase,           \* "idle", "running", "summary", "nofiles"; in SpecMain
                     \* first "main", and "exit" or "raised" when the script
                     \* ends without the call
    download_queue,  \* the queue built by build_download_queue
    tracker,         \* <<>> or <<the DownloadTracker>>
    pc,              \* position of each submitted task
    ret,             \* outcome of each task: "None" (not finished), "True",
                     \* "False", or "raised" (an exception left the worker)
    calls,           \* per task, the files it passed to download_file
    loaded,          \* per task, the counter value its "+= 1" has read
    printed,         \* the processed counts of the progress lines printed
    disk_at_start,   \* the destination folder when the invocation started
    summary,         \* <<>> or <<the final summary printed>>
    directory,       \* the verifier's target: does it exist, and its sidecars
    par_report,      \* <<>> or <<what verify_directory_parallel returned>>
    seq_report,      \* <<>> or <<what verify_directory_sequential returned>>
    exit_status      \* per mode, <<>> or <<the exit status of main()>>

dlvars == <<args, disk, run, phase, download_queue, tracker, pc, ret, calls,
            loaded, printed, disk_at_start, summary>>

vvars == <<directory, par_report, seq_report, exit_status>>

vars == <<dlvars, vvars>>

Tasks == 1..Len(download_queue)

\* ----------------------------------------------------------- pure helpers

\* Mutant of is_file_complete: any existing file counts, also an empty one.
is_file_complete_ExistsOnly(d, file_path) == file_path \in DOMAIN d

\* is_file_complete(file_path) on the folder content d.
is_file_complete(d, file_path) ==
    IF file_path \notin DOMAIN d THEN FALSE ELSE d[file_path] > 0

\* f"{symbol}-{interval}-{date}"
file_id(symbol, interval, date) == symbol \o "-" \o interval \o "-" \o date

\* "{}-{}-{}.zip".format(symbol.upper(), interval, date)
file_name(info) ==
    upper(info.symbol) \o "-" \o info.interval \o "-" \o info.date \o ".zip"

\* os.path.join(folder, path, file_name)
full_path(info) ==
    get_path("daily", info.symbol, info.interval) \o file_name(info)

checksum_full_path(info) == full_path(info) \o ".CHECKSUM"

\* current_date >= start_date and current_date <= end_date
InRange(info) ==
    /\ convert_to_date_object(info.date) >= info.start_date
    /\ convert_to_date_object(info.date) <= info.end_date

\* The (symbol, interval, date) triples in the order of the three nested loops.
Triples(syms, ivs, ds) ==
    LET ni == Len(ivs)
        nd == Len(ds)
    IN  [k \in 1..(Len(syms) * ni * nd) |->
            <<syms[((k - 1) \div (ni * nd)) + 1],
              ivs[(((k - 1) \div nd) % ni) + 1],
              ds[((k - 1) % nd) + 1]>>]

RECURSIVE BuildLoop(_, _, _, _, _)
BuildLoop(trs, k, queue, seen_files, rest) ==
    IF k > Len(trs) THEN queue
    ELSE LET id == file_id(trs[k][1], trs[k][2], trs[k][3])
         IN  IF id \notin seen_files
             THEN BuildLoop(trs, k + 1,
                            Append(queue,
                                   [symbol |-> trs[k][1], interval |-> trs[k][2],
                                    date |-> trs[k][3],
                                    start_date |-> rest.start_date,
                                    end_date |-> rest.end_date,
                                    checksum |-> rest.checksum]),
                            seen_files \cup {id}, rest)
             ELSE BuildLoop(trs, k + 1, queue, seen_files, rest)

build_download_queue(syms, ivs, ds, rest) ==
    BuildLoop(Triples(syms, ivs, ds), 1, <<>>, {}, rest)

\* The orders list(set(...)) can produce for a set.
ListsOf(S) == {s \in [1..Cardinality(S) -> S] : \A x \in S : \E i \in DOMAIN s : s[i] = x}

Range(s) == {s[i] : i \in DOMAIN s}


\* ------------------------------------------------------- DownloadTracker

\* DownloadTracker.__init__(total_files); lock = 0 means the lock is free,
\* lock = i that task i holds it.
DownloadTracker(total_files) ==
    [lock |-> 0, completed |-> 0, failed |-> 0, skipped |-> 0,
     total |-> total_files, failed_files |-> <<>>]

processed(t) == t.completed + t.failed + t.skipped

\* _print_progress: the progress lines after the call, given those before.
print_progress(t, lines) ==
    IF processed(t) % 10 = 0 \/ processed(t) = t.total
    THEN Append(lines, processed(t))
    ELSE lines

\* ------------------------------------------------------------------- Init

Runs == {1, 2}

ArgSets ==
    {a \in [symbols : SeqUpTo(Symbols, MaxTasks),
            intervals : SeqUpTo(Intervals, 1),
            dates : SeqUpTo(DateTokens, MaxTasks),
            startDate : {None, "2024-01-02"},
            endDate : {None, "2024-01-02"},
            checksum : {0, 1},
            workers : 1..MaxTasks] :
        Len(a.symbols) * Len(a.intervals) * Len(a.dates) <= MaxTasks}

\* The data files the invocation can address.
DataPaths(a) ==
    {full_path([symbol |-> a.symbols[i], interval |-> a.intervals[j], date |-> a.dates[k]]) :
        i \in DOMAIN a.symbols, j \in DOMAIN a.intervals,
        k \in {n \in DOMAIN a.dates : ~ValueError(a.dates[n])}}

Init ==
    /\ args \in ArgSets
    \* the destination folder is fresh, or holds empty files left behind
    /\ \E empty \in SUBSET DataPaths(args) : disk = [p \in empty |-> 0]
    /\ run = 0
    /\ phase = "idle"
    /\ download_queue = <<>>
    /\ tracker = <<>>
    /\ pc = <<>>
    /\ ret = <<>>
    /\ calls = <<>>
    /\ loaded = <<>>
    /\ printed = <<>>
    /\ disk_at_start = disk
    /\ summary = <<>>
    /\ directory = [exists |-> FALSE, files |-> <<>>]
    /\ par_report = <<>>
    /\ seq_report = <<>>
    /\ exit_status = [parallel |-> <<>>, sequential |-> <<>>]

\* ------------------------------------------------- download_daily_klines

\* Mutant of DownloadDailyKlines: an empty queue is not short-circuited.
DownloadDailyKlines_NoShortCircuit ==
    /\ phase \in {"idle", "nofiles", "summary"}
    /\ run + 1 \in Runs
    /\ run' = run + 1
    /\ \E ivs \in ListsOf(Range(args.intervals) \cap DAILY_INTERVALS) :
         LET start_date == IF args.startDate = None THEN START_DATE
                           ELSE convert_to_date_object(args.startDate)
             end_date == IF args.endDate = None THEN END_DATE
                         ELSE convert_to_date_object(args.endDate)
             queue == build_download_queue(args.symbols, ivs, args.dates,
                          [start_date |-> start_date, end_date |-> end_date,
                           checksum |-> args.checksum])
             total_files == Len(queue)
         IN  /\ download_queue' = queue
             /\ phase' = "running"
             /\ tracker' = <<DownloadTracker(total_files)>>
             /\ pc' = [i \in 1..total_files |-> "pending"]
             /\ ret' = [i \in 1..total_files |-> None]
             /\ calls' = [i \in 1..total_files |-> {}]
             /\ loaded' = [i \in 1..total_files |-> 0]
    /\ printed' = <<>>
    /\ summary' = <<>>
    /\ disk_at_start' = disk
    /\ UNCHANGED <<args, disk, vvars>>

\* Lines 130-173: defaults, interval filter, queue, tracker, submission.
DownloadDailyKlines ==
    /\ phase \in {"idle", "nofiles", "summary"}
    /\ run + 1 \in Runs
    /\ run' = run + 1
    /\ \E ivs \in ListsOf(Range(args.intervals) \cap DAILY_INTERVALS) :
         LET start_date == IF args.startDate = None THEN START_DATE
                           ELSE convert_to_date_object(args.startDate)
             end_date == IF args.endDate = None THEN END_DATE
                         ELSE convert_to_date_object(args.endDate)
             queue == build_download_queue(args.symbols, ivs, args.dates,
                          [start_date |-> start_date, end_date |-> end_date,
                           checksum |-> args.checksum])
             total_files == Len(queue)
         IN  /\ download_queue' = queue
             /\ IF total_files = 0
                THEN /\ phase' = "nofiles"
                     /\ tracker' = <<>>
                ELSE /\ phase' = "running"
                     /\ tracker' = <<DownloadTracker(total_files)>>
             /\ pc' = [i \in 1..total_files |-> "pending"]
             /\ ret' = [i \in 1..total_files |-> None]
             /\ calls' = [i \in 1..total_files |-> {}]
             /\ loaded' = [i \in 1..total_files |-> 0]
    /\ printed' = <<>>
    /\ summary' = <<>>
    /\ disk_at_start' = disk
    /\ UNCHANGED <<args, disk, vvars>>

\* The tasks a worker thread of the pool is running.
Running == {i \in Tasks : pc[i] \notin {"pending", "done"}}

\* Mutant of CanStart: a recorded failure stops the pool from starting the
\* tasks still queued.
CanStart_UnlessFailed(i) ==
    /\ pc[i] = "pending"
    /\ \A j \in 1..(i - 1) : pc[j] # "pending"
    /\ Cardinality(Running) < args.workers
    /\ tracker[1].failed = 0

\* Mutant of CanStart: the pool runs one task at a time, whatever
\* max_workers is.
CanStart_OneAtATime(i) ==
    /\ pc[i] = "pending"
    /\ \A j \in 1..(i - 1) : pc[j] # "pending"
    /\ Running = {}

\* ThreadPoolExecutor: the work queue is FIFO and at most max_workers
\* threads exist.
CanStart(i) ==
    /\ pc[i] = "pending"
    /\ \A j \in 1..(i - 1) : pc[j] # "pending"
    /\ Cardinality(Running) < args.workers

\* Lines 176-190: every future has a result or an exception, which is
\* caught and printed ("Task failed"); the summary is printed.
Finish ==
    /\ phase = "running"
    /\ \A i \in Tasks : pc[i] = "done"
    /\ phase' = "summary"
    /\ summary' = <<[completed |-> tracker[1].completed,
                     failed |-> tracker[1].failed,
                     skipped |-> tracker[1].skipped,
                     total |-> tracker[1].total,
                     task_failed |->
                         Cardinality({i \in Tasks : ret[i] = "raised"})]>>
    /\ UNCHANGED <<loaded, args, disk, run, download_queue, tracker, pc, ret, calls,
                   printed, disk_at_start, vvars>>

\* --------------------------------------------- download_single_kline_file

\* download_file writes path p (spec 6: "writes file or fails").
written(d, p) == [q \in DOMAIN d \cup {p} |-> IF q = p THEN 1 ELSE d[q]]

\* Mutant of Start: the date range is not checked.
Start_NoRangeCheck(i) ==
    /\ phase = "running"
    /\ pc[i] = "pending"
    /\ \A j \in 1..(i - 1) : pc[j] # "pending"
    /\ Cardinality(Running) < args.workers
    /\ pc' = [pc EXCEPT ![i] = "check_file"]
    /\ UNCHANGED <<loaded, args, disk, run, phase, download_queue, tracker, ret, calls,
                   printed, disk_at_start, summary, vvars>>

\* Lines 69-74: a worker takes the task and checks the date range. Line 72
\* is outside the try block: when convert_to_date_object raises, the
\* exception leaves the worker and is kept in the future.
Start(i) ==
    /\ phase = "running"
    /\ CanStart(i)
    /\ IF ValueError(download_queue[i].date)
       THEN /\ pc' = [pc EXCEPT ![i] = "done"]
            /\ ret' = [ret EXCEPT ![i] = "raised"]
       ELSE IF InRange(download_queue[i])
       THEN /\ pc' = [pc EXCEPT ![i] = "check_file"]
            /\ ret' = ret
       ELSE /\ pc' = [pc EXCEPT ![i] = "done"]
            /\ ret' = [ret EXCEPT ![i] = "True"]
    /\ UNCHANGED <<loaded, args, disk, run, phase, download_queue, tracker, calls,
                   printed, disk_at_start, summary, vvars>>

\* Mutant of CheckFile: the existing file is not looked at.
CheckFile_NoSkip(i) ==
    /\ pc[i] = "check_file"
    /\ pc' = [pc EXCEPT ![i] = "download"]
    /\ UNCHANGED <<loaded, args, disk, run, phase, download_queue, tracker, ret, calls,
                   printed, disk_at_start, summary, vvars>>

\* Lines 78-83: is the main file already there?
CheckFile(i) ==
    /\ pc[i] = "check_file"
    /\ pc' = [pc EXCEPT ![i] =
                IF is_file_complete(disk, full_path(download_queue[i]))
                THEN "mark_skipped" ELSE "download"]
    /\ UNCHANGED <<loaded, args, disk, run, phase, download_queue, tracker, ret, calls,
                   printed, disk_at_start, summary, vvars>>

\* Mutant of AfterDownload: the checksum flag is not looked at.
AfterDownload_NoChecksum(info) == "mark_completed"

\* After the main file: line 91.
AfterDownload(info) ==
    IF info.checksum = 1 THEN "check_checksum" ELSE "mark_completed"

\* Line 88: download_file for the main file returns or raises.
Download(i) ==
    /\ pc[i] = "download"
    /\ calls' = [calls EXCEPT ![i] = @ \cup {"data"}]
    /\ \/ /\ disk' = written(disk, full_path(download_queue[i]))
          /\ pc' = [pc EXCEPT ![i] = AfterDownload(download_queue[i])]
       \/ /\ disk' = disk
          /\ pc' = [pc EXCEPT ![i] = "except"]
    /\ UNCHANGED <<loaded, args, run, phase, download_queue, tracker, ret, printed,
                   disk_at_start, summary, vvars>>

\* Lines 92-97: is the checksum file already there?
CheckChecksum(i) ==
    /\ pc[i] = "check_checksum"
    /\ pc' = [pc EXCEPT ![i] =
                IF ~is_file_complete(disk, checksum_full_path(download_queue[i]))
                THEN "download_checksum" ELSE "mark_completed"]
    /\ UNCHANGED <<loaded, args, disk, run, phase, download_queue, tracker, ret, calls,
                   printed, disk_at_start, summary, vvars>>

\* Line 98: download_file for the checksum file returns or raises.
DownloadChecksum(i) ==
    /\ pc[i] = "download_checksum"
    /\ calls' = [calls EXCEPT ![i] = @ \cup {"checksum"}]
    /\ \/ /\ disk' = written(disk, checksum_full_path(download_queue[i]))
          /\ pc' = [pc EXCEPT ![i] = "mark_completed"]
       \/ /\ disk' = disk
          /\ pc' = [pc EXCEPT ![i] = "except"]
    /\ UNCHANGED <<loaded, args, run, phase, download_queue, tracker, ret, printed,
                   disk_at_start, summary, vvars>>

\* Lines 103-105: the handler appends to failed_files (outside the lock).
Except(i) ==
    /\ pc[i] = "except"
    /\ tracker' = [tracker EXCEPT ![1].failed_files =
                     Append(@, file_id(download_queue[i].symbol,
                                       download_queue[i].interval,
                                       download_queue[i].date))]
    /\ pc' = [pc EXCEPT ![i] = "mark_failed"]
    /\ UNCHANGED <<loaded, args, disk, run, phase, download_queue, ret, calls, printed,
                   disk_at_start, summary, vvars>>

\* The counter that the mark operation at position p increments.
counter(t, p) ==
    CASE p = "mark_skipped" -> t.skipped
      [] p = "mark_completed" -> t.completed
      [] p = "mark_failed" -> t.failed

\* Mutant of Acquire: the mark operation does not wait for the lock.
Acquire_NoLock(i) ==
    /\ pc[i] \in {"mark_skipped", "mark_completed", "mark_failed"}
    /\ tracker' = [tracker EXCEPT ![1].lock = i]
    /\ loaded' = [loaded EXCEPT ![i] = counter(tracker[1], pc[i])]
    /\ pc' = [pc EXCEPT ![i] = "in_" \o pc[i]]
    /\ UNCHANGED <<args, disk, run, phase, download_queue, ret, calls, printed,
                   disk_at_start, summary, vvars>>

\* "with self.lock:" of mark_completed, mark_failed, mark_skipped, and the
\* read of "self.<counter> += 1", which nothing can separate from it.
Acquire(i) ==
    /\ pc[i] \in {"mark_skipped", "mark_completed", "mark_failed"}
    /\ tracker[1].lock = 0
    /\ tracker' = [tracker EXCEPT ![1].lock = i]
    /\ loaded' = [loaded EXCEPT ![i] = counter(tracker[1], pc[i])]
    /\ pc' = [pc EXCEPT ![i] = "in_" \o pc[i]]
    /\ UNCHANGED <<args, disk, run, phase, download_queue, ret, calls, printed,
                   disk_at_start, summary, vvars>>

\* The body of a mark operation: store the value read plus one, print,
\* release the lock.
mark_skipped(t, v) == [t EXCEPT !.skipped = v + 1, !.lock = 0]

mark_completed(t, v) == [t EXCEPT !.completed = v + 1, !.lock = 0]

\* Mutant of mark_failed: the lock is not released.
mark_failed_NoRelease(t, v) == [t EXCEPT !.failed = v + 1]

mark_failed(t, v) == [t EXCEPT !.failed = v + 1, !.lock = 0]

\* Lines 84-85.
MarkSkipped(i) ==
    /\ pc[i] = "in_mark_skipped"
    /\ tracker' = <<mark_skipped(tracker[1], loaded[i])>>
    /\ loaded' = [loaded EXCEPT ![i] = 0]
    /\ printed' = print_progress(tracker'[1], printed)
    /\ pc' = [pc EXCEPT ![i] = "done"]
    /\ ret' = [ret EXCEPT ![i] = "True"]
    /\ UNCHANGED <<args, disk, run, phase, download_queue, calls,
                   disk_at_start, summary, vvars>>

\* Lines 100-101.
MarkCompleted(i) ==
    /\ pc[i] = "in_mark_completed"
    /\ tracker' = <<mark_completed(tracker[1], loaded[i])>>
    /\ loaded' = [loaded EXCEPT ![i] = 0]
    /\ printed' = print_progress(tracker'[1], printed)
    /\ pc' = [pc EXCEPT ![i] = "done"]
    /\ ret' = [ret EXCEPT ![i] = "True"]
    /\ UNCHANGED <<args, disk, run, phase, download_queue, calls,
                   disk_at_start, summary, vvars>>

\* Lines 106-107.
MarkFailed(i) ==
    /\ pc[i] = "in_mark_failed"
    /\ tracker' = <<mark_failed(tracker[1], loaded[i])>>
    /\ loaded' = [loaded EXCEPT ![i] = 0]
    /\ printed' = print_progress(tracker'[1], printed)
    /\ pc' = [pc EXCEPT ![i] = "done"]
    /\ ret' = [ret EXCEPT ![i] = "False"]
    /\ UNCHANGED <<args, disk, run, phase, download_queue, calls,
                   disk_at_start, summary, vvars>>

\* One step of the worker thread running task i.
Worker(i) ==
    \/ Start(i)
    \/ CheckFile(i)
    \/ Download(i)
    \/ CheckChecksum(i)
    \/ DownloadChecksum(i)
    \/ Except(i)
    \/ Acquire(i)
    \/ MarkSkipped(i)
    \/ MarkCompleted(i)
    \/ MarkFailed(i)

WorkerStep == \E i \in Tasks : Worker(i)

Next ==
    \/ DownloadDailyKlines
    \/ WorkerStep
    \/ Finish

Spec == Init /\ [][Next]_vars

\* The invocations that start on a fresh destination folder.
FairInit == Init /\ disk = <<>>

\* The pool's threads are scheduled fairly and the main thread joins them.
FairSpec ==
    FairInit /\ [][Next]_vars /\ WF_vars(WorkerStep) /\ WF_vars(Finish)

\* Lines 88 and 98: a download_file call that never returns. The file has
\* been passed to download_file; no timeout reaches the transfer, so the
\* worker thread stays in the call.
Hang(i) ==
    /\ pc[i] \in {"download", "download_checksum"}
    /\ calls' = [calls EXCEPT ![i] =
                   @ \cup {IF pc[i] = "download" THEN "data" ELSE "checksum"}]
    /\ pc' = [pc EXCEPT ![i] = "hung"]
    /\ UNCHANGED <<loaded, args, disk, run, phase, download_queue, tracker, ret,
                   printed, disk_at_start, summary, vvars>>

HangStep == \E i \in Tasks : Hang(i)

HangNext ==
    \/ DownloadDailyKlines
    \/ WorkerStep
    \/ Finish
    \/ HangStep

\* The batch with fair threads, any of whose transfers may hang.
HangSpec ==
    FairInit /\ [][HangNext]_vars /\ WF_vars(WorkerStep) /\ WF_vars(Finish)

\* -------------------------------------------------------------- __main__

\* utility.get_all_symbols: the symbols listed by the exchange.
get_all_symbols == <<"BTC">>

\* Lines 249-252: every day from PERIOD_START_DATE to today.
AllDays == <<"2024-01-01", "2024-01-02", "2024-01-03">>

\* "{}".format(n) for the years and months of the model.
format_int(n) == CASE n = 1 -> "1"
                   [] n = 2 -> "2"
                   [] n = 2024 -> "2024"

\* "{:02d}".format(month)
two_digits(n) == CASE n = 1 -> "01"
                   [] n = 2 -> "02"

\* "{}-{}-{}-{}.zip".format(symbol.upper(), interval, year, '{:02d}'.format(month))
monthly_file_name(symbol, interval, year, month) ==
    upper(symbol) \o "-" \o interval \o "-" \o format_int(year) \o "-"
        \o two_digits(month) \o ".zip"

\* The (symbol, interval, year, month) of the four nested loops, in order.
Quads(syms, ivs, years, months) ==
    LET ni == Len(ivs)
        ny == Len(years)
        nm == Len(months)
    IN  [k \in 1..(Len(syms) * ni * ny * nm) |->
            <<syms[((k - 1) \div (ni * ny * nm)) + 1],
              ivs[(((k - 1) \div (ny * nm)) % ni) + 1],
              years[(((k - 1) \div nm) % ny) + 1],
              months[((k - 1) % nm) + 1]>>]

\* Lines 211-224: the files passed to download_file, in call order.
RECURSIVE MonthlyLoop(_, _, _, _)
MonthlyLoop(qs, k, files, rest) ==
    IF k > Len(qs) THEN files
    ELSE LET current_date ==
                 convert_to_date_object(format_int(qs[k][3]) \o "-"
                                        \o format_int(qs[k][4]) \o "-01")
             file == get_path("monthly", qs[k][1], qs[k][2])
                         \o monthly_file_name(qs[k][1], qs[k][2], qs[k][3], qs[k][4])
         IN  IF current_date >= rest.start_date /\ current_date <= rest.end_date
             THEN MonthlyLoop(qs, k + 1,
                      IF rest.checksum = 1
                      THEN files \o <<file, file \o ".CHECKSUM">>
                      ELSE Append(files, file),
                      rest)
             ELSE MonthlyLoop(qs, k + 1, files, rest)

\* download_monthly_klines: the files it passes to download_file, in call
\* order; intervals is the list after the intersection of lines 208.
download_monthly_klines(symbols, intervals, years, months, start, end, checksum) ==
    MonthlyLoop(Quads(symbols, intervals, years, months), 1, <<>>,
                [start_date |-> IF start = None THEN START_DATE
                                ELSE convert_to_date_object(start),
                 end_date |-> IF end = None THEN END_DATE
                              ELSE convert_to_date_object(end),
                 checksum |-> checksum])

\* The folder after download_file has written the files in turn.
RECURSIVE WriteAll(_, _)
WriteAll(d, files) ==
    IF files = <<>> THEN d
    ELSE WriteAll(written(d, Head(files)), Tail(files))

\* The command lines of the model.
CommandLines ==
    [symbols : {<<>>, <<"btc">>},
     intervals : {<<"1d">>, <<"1h">>},
     dates : {<<>>, <<"2024-01-02">>},
     years : {<<2024>>},
     months : {<<1>>, <<1, 2>>},
     startDate : {None, "2024-01-02"},
     endDate : {None, "2024-01-02"},
     checksum : {0, 1},
     workers : {1},
     skip_monthly : {0, 1},
     skip_daily : {0, 1}]

\* A daily file an earlier run of the script may have left in the folder.
EarlierFiles == {"daily/klines/BTC/1d/BTC-1d-2024-01-02.zip"}

MInit ==
    /\ args \in CommandLines
    /\ \E present \in SUBSET EarlierFiles : disk = [p \in present |-> 1]
    /\ run = 0
    /\ phase = "main"
    /\ download_queue = <<>>
    /\ tracker = <<>>
    /\ pc = <<>>
    /\ ret = <<>>
    /\ calls = <<>>
    /\ loaded = <<>>
    /\ printed = <<>>
    /\ disk_at_start = disk
    /\ summary = <<>>
    /\ directory = [exists |-> FALSE, files |-> <<>>]
    /\ par_report = <<>>
    /\ seq_report = <<>>
    /\ exit_status = [parallel |-> <<>>, sequential |-> <<>>]

\* Lines 232-256, up to the call of download_daily_klines: the symbols and
\* the dates are defaulted; without dates, and unless skip_monthly, the
\* monthly files are transferred first, one after the other, and an
\* exception of download_file ends the script there; then, unless
\* skip_daily, download_daily_klines is called with the arguments left in
\* args.
Main ==
    /\ phase = "main"
    /\ \E ivs \in ListsOf(Range(args.intervals) \cap DAILY_INTERVALS) :
         LET symbols == IF args.symbols = <<>> THEN get_all_symbols
                        ELSE args.symbols
             dates == IF args.dates # <<>> THEN args.dates ELSE AllDays
             monthly == IF args.dates = <<>> /\ args.skip_monthly = 0
                        THEN download_monthly_klines(symbols, ivs, args.years,
                                 args.months, args.startDate, args.endDate,
                                 args.checksum)
                        ELSE <<>>
         IN  \E k \in 0..Len(monthly) :
                 /\ disk' = WriteAll(disk, SubSeq(monthly, 1, k))
                 /\ IF k < Len(monthly)
                    THEN /\ phase' = "raised"
                         /\ args' = args
                    ELSE IF args.skip_daily = 0
                    THEN /\ phase' = "idle"
                         /\ args' = [symbols |-> symbols,
                                     intervals |-> args.intervals,
                                     dates |-> dates,
                                     startDate |-> args.startDate,
                                     endDate |-> args.endDate,
                                     checksum |-> args.checksum,
                                     workers |-> args.workers]
                    ELSE /\ phase' = "exit"
                         /\ args' = args
    /\ disk_at_start' = disk'
    /\ UNCHANGED <<loaded, run, download_queue, tracker, pc, ret, calls, printed,
                   summary, vvars>>

\* Lines 255-257: the one call of download_daily_klines the script makes.
MainCall == run = 0 /\ DownloadDailyKlines

MainNext ==
    \/ Main
    \/ MainCall
    \/ WorkerStep
    \/ Finish

\* One run of the script, from the command line to the end of its call of
\* download_daily_klines.
SpecMain == MInit /\ [][MainNext]_vars

\* ------------------------------------------------ build_download_queue

\* Longest argument list handed to build_download_queue on its own.
MaxList == 2

QSymbols == {"A", "A-B"}

QIntervals == {"C", "B-C"}

QDates == {"D", "E"}

QInit ==
    /\ args \in [symbols : SeqUpTo(QSymbols, MaxList),
                 intervals : SeqUpTo(QIntervals, MaxList),
                 dates : SeqUpTo(QDates, MaxList),
                 startDate : {None}, endDate : {None},
                 checksum : {0}, workers : {1}]
    /\ disk = <<>>
    /\ run = 0
    /\ phase = "idle"
    /\ download_queue = <<>>
    /\ tracker = <<>>
    /\ pc = <<>>
    /\ ret = <<>>
    /\ calls = <<>>
    /\ loaded = <<>>
    /\ printed = <<>>
    /\ disk_at_start = <<>>
    /\ summary = <<>>
    /\ directory = [exists |-> FALSE, files |-> <<>>]
    /\ par_report = <<>>
    /\ seq_report = <<>>
    /\ exit_status = [parallel |-> <<>>, sequential |-> <<>>]

\* build_download_queue(trading_type, symbols, intervals, dates, ...) is called.
BuildQueue ==
    /\ phase = "idle"
    /\ phase' = "built"
    /\ download_queue' =
         build_download_queue(args.symbols, args.intervals, args.dates,
             [start_date |-> START_DATE, end_date |-> END_DATE,
              checksum |-> args.checksum])
    /\ UNCHANGED <<loaded, args, disk, run, tracker, pc, ret, calls, printed,
                   disk_at_start, summary, vvars>>

SpecQueue == QInit /\ [][BuildQueue]_vars

\* ------------------------------------------------------- verify-data.py

\* Most sidecars of a modelled directory, and the longest first line of a
\* modelled sidecar.
MaxFiles == 2

MaxLine == 3

\* Text is a sequence of characters.
Chars == {"a", "A", "b", " "}

Whitespace == {" "}

\* The digests hashlib's hexdigest() yields for the modelled data files.
Digests == {<<"a">>, <<"b">>, <<"a", "b">>}

\* A .CHECKSUM file: can it be opened and read, and its first line.
Sidecars(n) ==
    {[readable |-> FALSE, line |-> <<>>]} \cup
    [readable : {TRUE}, line : SeqUpTo(Chars, n)]

\* A data file: is it there, can it be read, and the SHA-256 of its content.
DataFiles ==
    {[exists |-> FALSE, readable |-> FALSE, digest |-> <<>>],
     [exists |-> TRUE, readable |-> FALSE, digest |-> <<>>]} \cup
    [exists : {TRUE}, readable : {TRUE}, digest : Digests]

Entries(n) == [sidecar : Sidecars(n), data : DataFiles]

\* str.lower()
lower_char(c) == CASE c = "A" -> "a"
                   [] c = "B" -> "b"
                   [] OTHER -> c

lower(s) == [i \in DOMAIN s |-> lower_char(s[i])]

\* str.strip()
RECURSIVE lstrip(_)
lstrip(s) == IF s # <<>> /\ Head(s) \in Whitespace THEN lstrip(Tail(s)) ELSE s

RECURSIVE rstrip(_)
rstrip(s) ==
    IF s # <<>> /\ s[Len(s)] \in Whitespace
    THEN rstrip(SubSeq(s, 1, Len(s) - 1)) ELSE s

strip(s) == rstrip(lstrip(s))

\* line.split()[0] of a stripped, non-empty line: up to the first whitespace.
RECURSIVE first_token(_)
first_token(s) ==
    IF s = <<>> \/ Head(s) \in Whitespace THEN <<>>
    ELSE <<Head(s)>> \o first_token(Tail(s))

\* read_checksum_file: <<>> is None, <<h>> the expected hash h.
read_checksum_file(sidecar) ==
    IF ~sidecar.readable THEN <<>>
    ELSE LET line == strip(sidecar.line)
         IN  IF line # <<>> THEN <<first_token(line)>> ELSE <<>>

\* calculate_sha256: <<>> is None, <<h>> the hex digest h.
calculate_sha256(data) ==
    IF ~data.readable THEN <<>> ELSE <<data.digest>>

\* Python's "not x" for an optional string.
falsy(opt) == opt = <<>> \/ opt[1] = <<>>

\* Mutant of verify_single_file_worker: the digests are compared as written.
verify_single_file_worker_CaseSensitive(e) ==
    LET expected_hash == read_checksum_file(e.sidecar)
        actual_hash == calculate_sha256(e.data)
    IN  IF ~e.data.exists
        THEN [status |-> "missing", expected |-> <<>>, actual |-> <<>>]
        ELSE IF falsy(expected_hash)
        THEN [status |-> "invalid_checksum", expected |-> <<>>, actual |-> <<>>]
        ELSE IF falsy(actual_hash)
        THEN [status |-> "read_error", expected |-> <<>>, actual |-> <<>>]
        ELSE [status |-> IF expected_hash[1] = actual_hash[1]
                         THEN "verified" ELSE "corrupted",
              expected |-> expected_hash[1], actual |-> actual_hash[1]]

\* verify_single_file_worker(checksum_file_path)
verify_single_file_worker(e) ==
    LET expected_hash == read_checksum_file(e.sidecar)
        actual_hash == calculate_sha256(e.data)
    IN  IF ~e.data.exists
        THEN [status |-> "missing", expected |-> <<>>, actual |-> <<>>]
        ELSE IF falsy(expected_hash)
        THEN [status |-> "invalid_checksum", expected |-> <<>>, actual |-> <<>>]
        ELSE IF falsy(actual_hash)
        THEN [status |-> "read_error", expected |-> <<>>, actual |-> <<>>]
        ELSE [status |-> IF lower(expected_hash[1]) = lower(actual_hash[1])
                         THEN "verified" ELSE "corrupted",
              expected |-> expected_hash[1], actual |-> actual_hash[1]]

\* The counting loop of verify_directory_parallel, lines 117-134.
RECURSIVE count_results(_, _, _)
count_results(results, k, acc) ==
    IF k > Len(results) THEN acc
    ELSE LET status == results[k].status
         IN  count_results(results, k + 1,
                 IF status = "verified" THEN [acc EXCEPT !.verified = @ + 1]
                 ELSE IF status = "corrupted" THEN [acc EXCEPT !.failed = @ + 1]
                 ELSE IF status = "missing" THEN [acc EXCEPT !.missing = @ + 1]
                 ELSE acc)

\* What a directory verification returns and reports; "outcomes" is the
\* fate of each sidecar, in glob order.
no_report ==
    [result |-> FALSE, verified |-> 0, failed |-> 0, missing |-> 0,
     outcomes |-> <<>>, started |-> FALSE]

\* Mutant of verify_directory_parallel: an empty list of sidecars is not
\* short-circuited.
verify_directory_parallel_NoEmptyCheck(dir) ==
    IF ~dir.exists THEN no_report
    ELSE LET results == [i \in DOMAIN dir.files |->
                            verify_single_file_worker(dir.files[i])]
             n == count_results(results, 1,
                      [verified |-> 0, failed |-> 0, missing |-> 0])
         IN  [result |-> n.failed = 0 /\ n.missing = 0,
              verified |-> n.verified, failed |-> n.failed,
              missing |-> n.missing,
              outcomes |-> [i \in DOMAIN results |-> results[i].status],
              started |-> TRUE]

\* verify_directory_parallel(data_dir, workers)
verify_directory_parallel(dir) ==
    IF ~dir.exists THEN no_report
    ELSE IF dir.files = <<>> THEN no_report
    ELSE LET results == [i \in DOMAIN dir.files |->
                            verify_single_file_worker(dir.files[i])]
             n == count_results(results, 1,
                      [verified |-> 0, failed |-> 0, missing |-> 0])
         IN  [result |-> n.failed = 0 /\ n.missing = 0,
              verified |-> n.verified, failed |-> n.failed,
              missing |-> n.missing,
              outcomes |-> [i \in DOMAIN results |-> results[i].status],
              started |-> TRUE]

\* The loop of verify_directory_sequential, lines 175-205.
RECURSIVE sequential_loop(_, _, _)
sequential_loop(files, k, acc) ==
    IF k > Len(files) THEN acc
    ELSE LET expected_hash == read_checksum_file(files[k].sidecar)
             actual_hash == calculate_sha256(files[k].data)
         IN  sequential_loop(files, k + 1,
                 IF ~files[k].data.exists
                 THEN [acc EXCEPT !.missing = @ + 1,
                                  !.outcomes = Append(@, "missing")]
                 ELSE IF falsy(expected_hash)
                 THEN [acc EXCEPT !.failed = @ + 1,
                                  !.outcomes = Append(@, "invalid_checksum")]
                 ELSE IF falsy(actual_hash)
                 THEN [acc EXCEPT !.failed = @ + 1,
                                  !.outcomes = Append(@, "read_error")]
                 ELSE IF lower(expected_hash[1]) = lower(actual_hash[1])
                 THEN [acc EXCEPT !.verified = @ + 1,
                                  !.outcomes = Append(@, "verified")]
                 ELSE [acc EXCEPT !.failed = @ + 1,
                                  !.outcomes = Append(@, "corrupted")])

\* verify_directory_sequential(data_dir)
verify_directory_sequential(dir) ==
    IF ~dir.exists THEN no_report
    ELSE IF dir.files = <<>> THEN no_report
    ELSE LET n == sequential_loop(dir.files, 1,
                      [verified |-> 0, failed |-> 0, missing |-> 0,
                       outcomes |-> <<>>])
         IN  [result |-> n.failed = 0 /\ n.missing = 0,
              verified |-> n.verified, failed |-> n.failed,
              missing |-> n.missing, outcomes |-> n.outcomes,
              started |-> FALSE]

\* main() on a target that is a directory or does not exist: the exit status.
main(target, sequential) ==
    IF target.exists
    THEN LET success == IF sequential
                        THEN verify_directory_sequential(target).result
                        ELSE verify_directory_parallel(target).result
         IN  IF success THEN 0 ELSE 1
    ELSE 1

\* The directories of the model: a single sidecar with any first line, or
\* several sidecars whose first line has at most one character, or a target
\* that does not exist.
Directories ==
    {[exists |-> FALSE, files |-> <<>>]} \cup
    [exists : {TRUE}, files : [1..1 -> Entries(MaxLine)]] \cup
    [exists : {TRUE}, files : SeqUpTo(Entries(1), MaxFiles)]

VInit ==
    /\ directory \in Directories
    /\ par_report = <<>>
    /\ seq_report = <<>>
    /\ exit_status = [parallel |-> <<>>, sequential |-> <<>>]
    /\ args = [symbols |-> <<>>, intervals |-> <<>>, dates |-> <<>>,
               startDate |-> None, endDate |-> None, checksum |-> 0,
               workers |-> 1]
    /\ disk = <<>>
    /\ run = 0
    /\ phase = "idle"
    /\ download_queue = <<>>
    /\ tracker = <<>>
    /\ pc = <<>>
    /\ ret = <<>>
    /\ calls = <<>>
    /\ loaded = <<>>
    /\ printed = <<>>
    /\ disk_at_start = <<>>
    /\ summary = <<>>

\* verify_directory_parallel runs on the directory.
VerifyParallel ==
    /\ par_report = <<>>
    /\ par_report' = <<verify_directory_parallel(directory)>>
    /\ exit_status' = [exit_status EXCEPT !.parallel = <<main(directory, FALSE)>>]
    /\ UNCHANGED <<dlvars, directory, seq_report>>

\* verify_directory_sequential runs on the directory.
VerifySequential ==
    /\ seq_report = <<>>
    /\ seq_report' = <<verify_directory_sequential(directory)>>
    /\ exit_status' = [exit_status EXCEPT !.sequential = <<main(directory, TRUE)>>]
    /\ UNCHANGED <<dlvars, directory, par_report>>

VNext ==
    \/ VerifyParallel
    \/ VerifySequential

SpecVerify == VInit /\ [][VNext]_vars

\* ------------------------------------------------------------------ claims

InRangeTasks ==
    {i \in Tasks : /\ ~ValueError(download_queue[i].date)
                   /\ InRange(download_queue[i])}

\* The tasks whose date lies outside [start_date, end_date].
OutOfRangeTasks ==
    {i \in Tasks : /\ ~ValueError(download_queue[i].date)
                   /\ ~InRange(download_queue[i])}

\* The file exists with size > 0, read off the folder content directly.
PresentNonEmpty(d, p) == p \in DOMAIN d /\ d[p] > 0

\* C1: with total = length of the queue, completed+failed+skipped <= total
\* in every state of a batch, and completed+failed+skipped = total once
\* every submitted task has resolved.
C1_TrackerTotal ==
    tracker # <<>> =>
        /\ processed(tracker[1]) <= tracker[1].total
        /\ (\A i \in Tasks : pc[i] = "done") =>
               processed(tracker[1]) = tracker[1].total

\* C2: a task whose date is outside [start_date, end_date] makes one step,
\* to its end: it returns True, calls download_file for nothing and leaves
\* the tracker (counters and failed_files) as it was.
C2_OutOfRangeUntouched ==
    [][\A i \in Tasks :
          (phase = "running" /\ i \in OutOfRangeTasks /\ pc'[i] # pc[i]) =>
              /\ pc'[i] = "done"
              /\ ret'[i] = "True"
              /\ calls'[i] = {}
              /\ tracker' = tracker]_vars

C2_Witness ==
    /\ phase = "running"
    /\ \E i \in OutOfRangeTasks : pc[i] = "done" /\ ret[i] = "True"
    /\ \E j \in InRangeTasks : pc[j] = "done"

\* C3 as stated: the second run of the same queue against the same folder
\* ends with skipped = total, completed = 0 and failed = 0, whatever the
\* first run's transfers did.
C3_SecondRunSkipsAll ==
    (run = 2 /\ phase = "summary") =>
        /\ summary[1].skipped = summary[1].total
        /\ summary[1].completed = 0
        /\ summary[1].failed = 0

\* C3 amended: if the first run left the data file of every in-range task
\* on disk with size > 0, the second run ends with skipped = number of
\* in-range tasks, completed = 0 and failed = 0.
C3_SecondRunSkipsPresent ==
    (/\ run = 2
     /\ phase = "summary"
     /\ \A i \in InRangeTasks :
            PresentNonEmpty(disk_at_start, full_path(download_queue[i]))) =>
        /\ summary[1].skipped = Cardinality(InRangeTasks)
        /\ summary[1].completed = 0
        /\ summary[1].failed = 0

C3_Witness ==
    /\ run = 2
    /\ phase = "summary"
    /\ \A i \in InRangeTasks :
           PresentNonEmpty(disk_at_start, full_path(download_queue[i]))
    /\ summary[1].skipped = 2

QueueKey(info) == <<info.symbol, info.interval, info.date>>

\* First position of a key in the symbol-major, then interval, then date
\* iteration.
FirstIndex(key) ==
    LET trs == Triples(args.symbols, args.intervals, args.dates)
    IN  CHOOSE k \in DOMAIN trs :
            trs[k] = key /\ \A m \in 1..(k - 1) : trs[m] # key

\* C4: the queue is no longer than |symbols| x |intervals| x |dates|, has
\* no two entries with the same (symbol, interval, date), has an entry for
\* every key of the cartesian product, and is in order of first occurrence.
C4_QueueContract ==
    phase = "built" =>
        LET q == download_queue
            product == Range(args.symbols) \X Range(args.intervals)
                           \X Range(args.dates)
        IN  /\ Len(q) <= Len(args.symbols) * Len(args.intervals) * Len(args.dates)
            /\ \A i, j \in DOMAIN q : i # j => QueueKey(q[i]) # QueueKey(q[j])
            /\ \A key \in product : \E i \in DOMAIN q : QueueKey(q[i]) = key
            /\ \A i \in DOMAIN q : QueueKey(q[i]) \in product
            /\ \A i, j \in DOMAIN q :
                   i < j => FirstIndex(QueueKey(q[i])) < FirstIndex(QueueKey(q[j]))

\* C5: an in-range task whose data file exists with size > 0 when it is
\* checked takes the skip path: it calls download_file for nothing, its mark
\* adds exactly one to skipped and nothing to completed or failed, it
\* returns True and is finished; a file of size 0 sends it to the transfer.
C5_IdempotentSkip ==
    [][\A i \in Tasks :
          (phase = "running" /\ pc'[i] # pc[i]) =>
              /\ pc[i] = "check_file" =>
                    IF PresentNonEmpty(disk, full_path(download_queue[i]))
                    THEN pc'[i] = "mark_skipped" /\ tracker' = tracker
                    ELSE pc'[i] = "download"
              /\ pc[i] = "mark_skipped" =>
                    /\ pc'[i] = "in_mark_skipped"
                    /\ processed(tracker'[1]) = processed(tracker[1])
              /\ pc[i] = "in_mark_skipped" =>
                    /\ tracker'[1].skipped = tracker[1].skipped + 1
                    /\ tracker'[1].completed = tracker[1].completed
                    /\ tracker'[1].failed = tracker[1].failed
                    /\ ret'[i] = "True"
                    /\ pc'[i] = "done"
              /\ pc[i] \in {"check_file", "mark_skipped", "in_mark_skipped"} =>
                    calls'[i] = {}
              /\ pc[i] = "download" => "data" \in calls'[i]]_vars

C5_Witness ==
    /\ phase = "running"
    /\ \E i \in InRangeTasks :
                        /\ pc[i] = "done"
                        /\ ret[i] = "True"
                        /\ calls[i] = {}
                        /\ tracker[1].skipped = 1
    /\ \E j \in Tasks : /\ "data" \in calls[j]
                        /\ full_path(download_queue[j]) \in DOMAIN disk_at_start
                        /\ disk_at_start[full_path(download_queue[j])] = 0

\* C6: whatever transfers fail, a running batch reaches the final summary
\* with every submitted task resolved (finished with a return value).
C6_FaultIsolation ==
    (phase = "running") ~>
        (/\ phase = "summary"
         /\ \A i \in Tasks : pc[i] = "done" /\ ret[i] # None)

C6_Witness ==
    /\ phase = "summary"
    /\ summary[1].failed >= 1
    /\ summary[1].completed >= 1

\* C7: no task ends with an exception leaving the worker: every task that
\* ends returns True or False. The handler of a failed task appends its
\* identifier to failed_files, its mark adds exactly one to failed and it
\* returns False; a task that got through adds exactly one to completed
\* and returns True; a task returns False exactly when its last step
\* counted it as failed.
C7_FailuresReported ==
    [][\A i \in Tasks :
          (phase = "running" /\ pc'[i] # pc[i]) =>
              /\ pc[i] = "except" =>
                    /\ tracker'[1].failed_files =
                           Append(tracker[1].failed_files,
                                  file_id(download_queue[i].symbol,
                                          download_queue[i].interval,
                                          download_queue[i].date))
                    /\ pc'[i] = "mark_failed"
              /\ pc[i] = "in_mark_failed" =>
                    /\ tracker'[1].failed = tracker[1].failed + 1
                    /\ tracker'[1].completed = tracker[1].completed
                    /\ tracker'[1].skipped = tracker[1].skipped
                    /\ ret'[i] = "False"
              /\ pc[i] = "in_mark_completed" =>
                    /\ tracker'[1].completed = tracker[1].completed + 1
                    /\ tracker'[1].failed = tracker[1].failed
                    /\ tracker'[1].skipped = tracker[1].skipped
                    /\ ret'[i] = "True"
              /\ pc'[i] = "done" =>
                    /\ ret'[i] \in {"True", "False"}
                    /\ ret'[i] = "False" <=>
                           tracker'[1].failed = tracker[1].failed + 1
              /\ pc'[i] # "done" => ret'[i] = None]_vars

\* C8: on the same directory the parallel and the sequential verifier give
\* every sidecar the same classification, report the same verified, failed
\* and missing counts and return the same boolean.
C8_ModesAgree ==
    (par_report # <<>> /\ seq_report # <<>>) =>
        /\ par_report[1].outcomes = seq_report[1].outcomes
        /\ par_report[1].verified = seq_report[1].verified
        /\ par_report[1].failed = seq_report[1].failed
        /\ par_report[1].missing = seq_report[1].missing
        /\ par_report[1].result = seq_report[1].result

\* The sidecars of the directory that a report classifies as st.
Classified(report, st) == {i \in DOMAIN report.outcomes : report.outcomes[i] = st}

\* C9: in both modes the boolean returned is true exactly when at least one
\* sidecar was found and none is corrupted, invalid_checksum, read_error or
\* missing, and the failed count is the number of corrupted,
\* invalid_checksum and read_error sidecars.
C9_PassPredicate ==
    \A rep \in {par_report, seq_report} :
        rep # <<>> =>
            /\ rep[1].result <=>
                   /\ directory.exists
                   /\ directory.files # <<>>
                   /\ \A i \in DOMAIN directory.files :
                          verify_single_file_worker(directory.files[i]).status
                              = "verified"
            /\ rep[1].failed =
                   Cardinality({i \in DOMAIN directory.files :
                       directory.exists /\
                       verify_single_file_worker(directory.files[i]).status
                           \in {"corrupted", "invalid_checksum", "read_error"}})

\* The same letter, whatever the case.
SameLetter(c, d) ==
    \/ c = d
    \/ {c, d} = {"a", "A"}
    \/ {c, d} = {"b", "B"}

\* The text is the given digest up to the case of its letters.
SameIgnoringCase(text, digest) ==
    /\ Len(text) = Len(digest)
    /\ \A k \in DOMAIN text : SameLetter(text[k], digest[k])

\* The line starts, after leading whitespace, with a token (ended by
\* whitespace or by the end of the line) that is the digest up to case.
FirstTokenIs(line, digest) ==
    \E a \in 0..Len(line) : \E b \in a..Len(line) :
        /\ \A k \in 1..a : line[k] \in Whitespace
        /\ b > a
        /\ \A k \in (a + 1)..b : line[k] \notin Whitespace
        /\ b < Len(line) => line[b + 1] \in Whitespace
        /\ SameIgnoringCase(SubSeq(line, a + 1, b), digest)

\* C10: each sidecar gets one status: missing if the data file is absent;
\* else invalid_checksum if the sidecar is unreadable or its first line is
\* blank; else read_error if the data file cannot be hashed; else verified
\* if the first token of the line is the digest up to case, else corrupted.
C10_StatusPrecedence ==
    par_report # <<>> =>
        \A i \in DOMAIN par_report[1].outcomes :
            LET e == directory.files[i]
                blank == \A k \in DOMAIN e.sidecar.line :
                             e.sidecar.line[k] \in Whitespace
            IN  par_report[1].outcomes[i] =
                    IF ~e.data.exists THEN "missing"
                    ELSE IF ~e.sidecar.readable \/ blank THEN "invalid_checksum"
                    ELSE IF ~e.data.readable THEN "read_error"
                    ELSE IF FirstTokenIs(e.sidecar.line, e.data.digest)
                    THEN "verified" ELSE "corrupted"

C10_Witness ==
    /\ par_report # <<>>
    /\ \E i \in DOMAIN par_report[1].outcomes :
          /\ par_report[1].outcomes[i] = "verified"
          /\ directory.files[i].sidecar.line = <<" ", "A", " ">>
          /\ directory.files[i].data.digest = <<"a">>

\* ------------------------------------------------------------ Claims C11-C20

\* The counts at which _print_progress refreshes the line, up to n.
ProgressCounts(t, n) == {k \in 1..n : k % 10 = 0 \/ k = t.total}

\* C11: the progress lines printed so far are exactly the processed counts
\* reached that are a multiple of 10 or equal to total, each once and in
\* increasing order; and when the batch has completed, the line of the final
\* item (processed == total) has been printed.
C11_ProgressLines ==
    tracker # <<>> =>
        /\ Len(printed) = Cardinality(ProgressCounts(tracker[1], processed(tracker[1])))
        /\ Range(printed) = ProgressCounts(tracker[1], processed(tracker[1]))
        /\ \A a, b \in DOMAIN printed : a < b => printed[a] < printed[b]
        /\ phase = "summary" => tracker[1].total \in Range(printed)

\* C12: a task that called download_file for the checksum file (so its data
\* file transfer had succeeded) never goes to the failure handler or to
\* mark_failed, and returns True, whether the checksum transfer succeeded
\* or raised.
C12_ChecksumBestEffort ==
    \A i \in Tasks :
        "checksum" \in calls[i] =>
            /\ pc[i] \notin {"except", "mark_failed", "in_mark_failed"}
            /\ pc[i] = "done" => ret[i] = "True"

\* The report and the exit status of each mode that has run.
VerifierRuns ==
    {r \in {[report |-> par_report, exit |-> exit_status.parallel],
            [report |-> seq_report, exit |-> exit_status.sequential]} :
        r.report # <<>>}

\* C13: in both modes, on a directory that does not exist or holds no
\* sidecar, verification returns False, starts no worker pool and classifies
\* nothing; the exit status is 1 then and whenever the boolean is False,
\* and 0 otherwise.
C13_EmptyDirectoryFails ==
    \A r \in VerifierRuns :
        /\ r.exit = <<IF r.report[1].result THEN 0 ELSE 1>>
        /\ (~directory.exists \/ directory.files = <<>>) =>
               /\ r.report[1].result = FALSE
               /\ r.report[1].started = FALSE
               /\ r.report[1].outcomes = <<>>
               /\ r.report[1].verified + r.report[1].failed
                      + r.report[1].missing = 0
               /\ r.exit = <<1>>

C13_Witness ==
    /\ directory.exists
    /\ directory.files = <<>>
    /\ par_report # <<>>
    /\ seq_report # <<>>
    /\ exit_status = [parallel |-> <<1>>, sequential |-> <<1>>]

\* The shared progress state: the three counters and the failed_files list.
ProgressState(t) == <<t.completed, t.failed, t.skipped, t.failed_files>>

\* C14: within a batch, every step that changes a counter or failed_files
\* is the body of a mark operation run by the worker that holds the lock.
C14_MutationUnderLock ==
    [][(run' = run /\ tracker # <<>> /\ tracker' # <<>>
            /\ ProgressState(tracker'[1]) # ProgressState(tracker[1]))
         => /\ tracker[1].lock \in Tasks
            /\ pc[tracker[1].lock] \in
                   {"in_mark_skipped", "in_mark_completed", "in_mark_failed"}
            /\ pc'[tracker[1].lock] = "done"]_vars

\* The positions inside the "with self.lock:" block of a mark operation.
InMark == {"in_mark_skipped", "in_mark_completed", "in_mark_failed"}

\* C15: the lock is free or held by a worker that is inside a mark
\* operation, which it can always finish; so a worker in a transfer never
\* holds it, and the workers waiting for the lock are never all blocked.
C15_LockOnlyInMark ==
    tracker # <<>> =>
        /\ \/ tracker[1].lock = 0
           \/ /\ tracker[1].lock \in Tasks
              /\ pc[tracker[1].lock] \in InMark
        /\ \A i \in Tasks :
              /\ pc[i] \in InMark => tracker[1].lock = i
              /\ pc[i] \in {"download", "download_checksum"} =>
                     tracker[1].lock # i

C15_Witness ==
    /\ tracker # <<>>
    /\ \E i, j \in Tasks :
          /\ pc[i] \in {"download", "download_checksum"}
          /\ pc[j] \in InMark
          /\ tracker[1].lock = j

\* The tasks whose transfer does not return.
Hung == {i \in Tasks : pc[i] = "hung"}

\* Every task of the queue other than the hung ones has been resolved.
OthersResolved == \A i \in Tasks : pc[i] \in {"done", "hung"}

\* C16 as stated: when a transfer hangs and the number of workers is below
\* the number of tasks, every other task is eventually started and resolved.
C16_HungStallsOnlyItsSlot ==
    ((\E j \in Tasks : pc[j] = "hung") /\ args.workers < Len(download_queue))
        ~> OthersResolved

\* C16: when transfers hang, every other task is eventually started and
\* resolved, unless every worker of the pool ends up in a hung transfer:
\* a hung transfer stalls its own worker and no other.
C16_HungWithSpareWorker ==
    (Hung # {}) ~> (OthersResolved \/ Cardinality(Hung) >= args.workers)

C16_Witness ==
    /\ phase = "running"
    /\ args.workers >= 2
    /\ Len(download_queue) >= 2
    /\ Hung = {1}
    /\ calls[1] = {"data"}
    /\ \A i \in Tasks \ {1} : pc[i] = "done" /\ ret[i] \in {"True", "False"}
    /\ processed(tracker[1]) >= 1

\* The in-range tasks of the queue for which the checksum was requested.
ChecksumTasks == {i \in InRangeTasks : download_queue[i].checksum = 1}

\* The data file and the sidecar of task i are on disk with size > 0.
BothOnDisk(i) ==
    /\ PresentNonEmpty(disk, full_path(download_queue[i]))
    /\ PresentNonEmpty(disk, checksum_full_path(download_queue[i]))

\* C17 as stated: after a run in which nothing failed, every in-range task
\* with checksum requested has its data file and its sidecar on disk,
\* whether or not the data file was already present.
C17_SidecarAlwaysFetched ==
    (phase = "summary" /\ summary[1].failed = 0) =>
        \A i \in ChecksumTasks : BothOnDisk(i)

\* C17: an in-range task with checksum requested that transferred its data
\* file and returned True has both files on disk; the sidecar is fetched
\* only after a data transfer of the same task, never by a task that was
\* skipped because its data file was present.
C17_SidecarAfterTransfer ==
    \A i \in ChecksumTasks :
        /\ "checksum" \in calls[i] => "data" \in calls[i]
        /\ pc[i] \in {"mark_skipped", "in_mark_skipped"} => calls[i] = {}
        /\ ("data" \in calls[i] /\ pc[i] = "done" /\ ret[i] = "True") =>
               BothOnDisk(i)

C17_Witness ==
    /\ phase = "summary"
    /\ summary[1].failed = 0
    /\ \E i \in ChecksumTasks :
          /\ calls[i] = {"data", "checksum"}
          /\ ret[i] = "True"
          /\ BothOnDisk(i)

\* One of the lists download_daily_klines builds the queue from is empty.
EmptyInput ==
    \/ args.symbols = <<>>
    \/ Range(args.intervals) \cap DAILY_INTERVALS = {}
    \/ args.dates = <<>>

\* C18: with an empty symbol list, an empty interval list after the
\* intersection with the daily allow-list, or an empty date list, the batch
\* stops at the "no files" message with an empty queue, no tracker, no task
\* and no transfer; and every tracker that exists has total > 0.
C18_EmptyQueueShortCircuits ==
    /\ tracker # <<>> => tracker[1].total > 0
    /\ (run >= 1 /\ EmptyInput) => phase = "nofiles"
    /\ phase = "nofiles" =>
          /\ download_queue = <<>>
          /\ tracker = <<>>
          /\ pc = <<>>
          /\ calls = <<>>
          /\ printed = <<>>
          /\ summary = <<>>
          /\ disk = disk_at_start

C18_Witness ==
    /\ phase = "nofiles"
    /\ args.symbols # <<>>
    /\ args.dates # <<>>
    /\ args.intervals = <<"1h">>
    /\ tracker = <<>>

\* C19: no two tasks of the queue have the same destination file, so no two
\* workers are in the existence check or the transfer of one path together
\* and no path is transferred by two tasks of a batch.
C19_DistinctDestinations ==
    \A i, j \in Tasks :
        i # j =>
            /\ full_path(download_queue[i]) # full_path(download_queue[j])
            /\ ~ /\ pc[i] \in {"check_file", "download"}
                 /\ pc[j] \in {"check_file", "download"}
                 /\ full_path(download_queue[i]) = full_path(download_queue[j])
            /\ ~ /\ "data" \in calls[i]
                 /\ "data" \in calls[j]
                 /\ full_path(download_queue[i]) = full_path(download_queue[j])

\* The in-range tasks that have finished.
Resolved == {i \in InRangeTasks : pc[i] = "done"}

\* C20: each finished in-range task is counted exactly once, in the counter
\* of its outcome, and an out-of-range task is never counted; so when every
\* task has finished completed+failed+skipped is the number of in-range
\* tasks. failed_files holds one entry per task that failed: its length is
\* the failed counter plus the tasks between the handler and their mark.
C20_NoLostUpdate ==
    tracker # <<>> =>
        /\ tracker[1].completed =
               Cardinality({i \in Resolved : ret[i] = "True" /\ "data" \in calls[i]})
        /\ tracker[1].skipped =
               Cardinality({i \in Resolved : ret[i] = "True" /\ calls[i] = {}})
        /\ tracker[1].failed = Cardinality({i \in Resolved : ret[i] = "False"})
        /\ processed(tracker[1]) = Cardinality(Resolved)
        /\ Len(tracker[1].failed_files) = tracker[1].failed +
               Cardinality({i \in Tasks : pc[i] \in {"mark_failed", "in_mark_failed"}})
        /\ \A i \in Tasks \ InRangeTasks : pc[i] \in {"pending", "done"}
        /\ (\A i \in Tasks : pc[i] = "done") =>
               /\ processed(tracker[1]) = Cardinality(InRangeTasks)
               /\ Len(tracker[1].failed_files) = tracker[1].failed

C20_Witness ==
    /\ phase = "summary"
    /\ args.workers = 2
    /\ Cardinality(InRangeTasks) = 2
    /\ tracker[1].completed = 2
    /\ printed = <<2>>

============================================================================
